---- MODULE Spec2Model ----
(***************************************************************************)
(* paper-tracker: the paper store (paper_tracker/store), the feed parser   *)
(* (paper_tracker/fetcher/arxiv.py), the keyword filter                    *)
(* (paper_tracker/fetcher/filter.py), the parser of the AI response        *)
(* (paper_tracker/summarizer), the configuration (paper_tracker/config.py) *)
(* and the commands of paper_tracker/cli that drive them, as state         *)
(* machines over one set of variables.                                     *)
(*                                                                         *)
(* Conventions                                                             *)
(*   - Python None and SQL NULL are Null (the empty tuple); a present      *)
(*     value v is Some(v), so a nullable field has one shape.              *)
(*   - A text the code builds (a join, a formatted date) is the sequence   *)
(*     of its pieces; an ISO date is the sequence of its code points, and  *)
(*     SQLite compares such texts bytewise (BINARY collation).             *)
(*   - A relevance score is an integer number of thousandths.              *)
(***************************************************************************)
EXTENDS Integers, Sequences, FiniteSets, TLC

VARIABLES
    papers,     \* the table "papers": stored id -> row
    call,       \* the call being made: its name (op) and its arguments; NoCall
                \* between two invocations
    ret,        \* what the call returned: a Python value, see NoneValue
    raised,     \* the exception the call raised ("" when none)
    queue,      \* summarize: the ids of the selected papers not yet processed
    feed,       \* the feed document handed to the parser: a sequence of entries
    parsed,     \* what _parse_response returned for it (Null before the call)
    keywords,   \* the keyword list a PaperFilter is constructed with
    case_sensitive, \* the case_sensitive flag it is constructed with
    candidates, \* the papers handed to PaperFilter.filter
    results,    \* what filter returned, with its min_matches (Null before)
    earlier,    \* what filter returned with the keyword list one shorter
    response,   \* the raw response text handed to the summarizer's parser
    paper_summary, \* the PaperSummary it returned (Null before the call)
    today,      \* date.today(), the clock of the machine the commands run on
    command,    \* the command line being executed, see NoCommandLine
    pc,         \* where its execution stands: the stage to run next, "loop"
                \* and "await" inside summarize, "done", "exit" after
                \* sys.exit(1), "" between two command lines
    stages,     \* the stages it has entered, each with the date it works on
    catalog,    \* the catalog's answer to the request of the fetch stage
    selection,  \* summarize: the Papers get_pending_papers returned
    in_flight,  \* the ids of the papers whose AI call is under way
    called,     \* the ids of the papers whose AI call was started, in order
    updated,    \* the ids whose summary was stored by this command, in order
    failed,     \* the ids whose AI call or store update raised
    config_file, \* the settings of config.yaml (Null without the file)
    environ,    \* the environment variables load_config reads
    settings    \* the Settings load_config returned (Null before the call)

vars ==
    <<papers, call, ret, raised, queue, feed, parsed,
      keywords, case_sensitive, candidates, results, earlier, response, paper_summary,
      today, command, pc, stages, catalog, selection, in_flight, called, updated,
      failed, config_file, environ, settings>>

storeVars == <<papers, call, ret, raised, queue>>
feedVars == <<feed, parsed>>
filterVars == <<keywords, case_sensitive, candidates, results, earlier>>
summarizerVars == <<response, paper_summary>>
cliVars ==
    <<today, command, pc, stages, catalog, selection, in_flight, called, updated, failed>>
configVars == <<config_file, environ, settings>>

----------------------------------------------------------------------------
(* Bounds of the model                                                     *)

MaxPapers == 2      \* distinct paper ids
MaxBatch == 2       \* papers in one save_papers call, ids in one mark_reported call
MaxLimit == 2       \* the largest limit passed to a query

----------------------------------------------------------------------------
(* Values                                                                  *)

Null == <<>>
Some(v) == <<v>>

Min(a, b) == IF a < b THEN a ELSE b

SeqsUpTo(S, n) == UNION {[1..k -> S] : k \in 0..n}

Range(s) == {s[i] : i \in DOMAIN s}

\* Python truthiness of an Optional[int] (`if limit:`): None and 0 are false.
TruthyInt(x) == x # Null /\ x[1] # 0

\* Python truthiness of an Optional[str] (`if status:`): None and "" are false.
TruthyStr(x) == x # Null /\ x[1] # ""

\* sep.join(items), as the sequence of its pieces.
RECURSIVE join(_, _)
join(sep, items) ==
    IF Len(items) = 0 THEN <<>>
    ELSE IF Len(items) = 1 THEN <<items[1]>>
    ELSE <<items[1], sep>> \o join(sep, Tail(items))

----------------------------------------------------------------------------
(* Dates: datetime.date, date.isoformat(), date.fromisoformat()            *)

Date(y, m, d) == [year |-> y, month |-> m, day |-> d]

Digit(n) == 48 + n
Hyphen == 45

\* date.isoformat(): "YYYY-MM-DD", zero padded, as code points.
isoformat(d) ==
    <<Digit(d.year \div 1000), Digit((d.year \div 100) % 10),
      Digit((d.year \div 10) % 10), Digit(d.year % 10), Hyphen,
      Digit(d.month \div 10), Digit(d.month % 10), Hyphen,
      Digit(d.day \div 10), Digit(d.day % 10)>>

\* date.fromisoformat(s) of a "YYYY-MM-DD" text.
fromisoformat(s) ==
    Date((s[1] - 48) * 1000 + (s[2] - 48) * 100 + (s[3] - 48) * 10 + (s[4] - 48),
         (s[6] - 48) * 10 + (s[7] - 48),
         (s[9] - 48) * 10 + (s[10] - 48))

\* a < b for two texts, bytewise (SQLite's BINARY collation).
RECURSIVE TextLess(_, _)
TextLess(a, b) ==
    IF Len(b) = 0 THEN FALSE
    ELSE IF Len(a) = 0 THEN TRUE
    ELSE IF a[1] # b[1] THEN a[1] < b[1]
    ELSE TextLess(Tail(a), Tail(b))

\* a < b for two calendar dates.
DateLess(a, b) ==
    \/ a.year < b.year
    \/ a.year = b.year /\ a.month < b.month
    \/ a.year = b.year /\ a.month = b.month /\ a.day < b.day

----------------------------------------------------------------------------
(* The table and its rows                                                  *)

Statuses == {"pending", "summarized", "reported"}

\* database.Paper: the dataclass, with its defaults for the last four fields.
Paper(id, title, authors, abstract, url, pdf_url, published_date, fetched_date) ==
    [id |-> id, title |-> title, authors |-> authors, abstract |-> abstract,
     url |-> url, pdf_url |-> pdf_url,
     published_date |-> published_date, fetched_date |-> fetched_date,
     summary |-> Null, key_points |-> Null, relevance_score |-> Null,
     status |-> "pending"]

Stored(db) == DOMAIN db

\* The row add_paper's INSERT writes for a Paper: the dates as ISO texts.
RowOf(paper) ==
    [paper EXCEPT !.published_date = isoformat(paper.published_date),
                  !.fetched_date = isoformat(paper.fetched_date)]

\* Database._row_to_paper
_row_to_paper(row) ==
    [row EXCEPT !.published_date = fromisoformat(row.published_date),
                !.fetched_date = fromisoformat(row.fetched_date)]

\* Database.add_paper with INSERT OR REPLACE instead of the plain INSERT.
add_paper_replace(db, paper) ==
    [db |-> [i \in Stored(db) \cup {paper.id} |->
                IF i = paper.id THEN RowOf(paper) ELSE db[i]],
     ret |-> paper.id \notin Stored(db)]

\* Database.add_paper: INSERT; the primary key rejects a stored id
\* (sqlite3.IntegrityError, caught: False).
add_paper(db, paper) ==
    IF paper.id \in Stored(db)
    THEN [db |-> db, ret |-> FALSE]
    ELSE [db |-> [i \in Stored(db) \cup {paper.id} |->
                    IF i = paper.id THEN RowOf(paper) ELSE db[i]],
          ret |-> TRUE]

\* Database.get_paper
get_paper(db, paper_id) ==
    IF paper_id \in Stored(db) THEN Some(_row_to_paper(db[paper_id])) ELSE Null

----------------------------------------------------------------------------
(* Queries: SELECT ... WHERE ... ORDER BY ... [LIMIT n]                    *)

RECURSIVE Perms(_)
Perms(S) ==
    IF S = {} THEN {<<>>}
    ELSE UNION {{<<x>> \o p : p \in Perms(S \ {x})} : x \in S}

\* WHERE: the rows of the table that satisfy Keep.
Where(db, Keep(_)) == {db[i] : i \in {j \in Stored(db) : Keep(db[j])}}

\* ORDER BY: every order of the rows in which no row precedes one that sorts
\* before it; SQLite leaves the order of rows with equal keys open.
OrderBy(rows, Before(_, _)) ==
    {s \in Perms(rows) :
        \A i, j \in 1..Len(s) : i < j => ~Before(s[j], s[i])}

\* LIMIT n
Limit(s, n) == SubSeq(s, 1, Min(n, Len(s)))

\* fetchall() through _row_to_paper
ToPapers(s) == [i \in 1..Len(s) |-> _row_to_paper(s[i])]

\* ORDER BY published_date DESC: the later ISO text first.
PublishedDesc(a, b) == TextLess(b.published_date, a.published_date)

\* x < y for two relevance_score values; SQLite sorts NULL below every number.
ScoreLess(x, y) == IF x = Null THEN y # Null ELSE y # Null /\ x[1] < y[1]

\* ORDER BY relevance_score DESC: the higher score first, NULL last.
ScoreDesc(a, b) == ScoreLess(b.relevance_score, a.relevance_score)

\* ORDER BY relevance_score ASC: NULL first.
ScoreAsc(a, b) == ScoreLess(a.relevance_score, b.relevance_score)

IsPending(row) == row.status = "pending"
AnyRow(row) == TRUE

\* Database.get_pending_papers: its possible results.
Database_get_pending_papers(db, limit) ==
    {ToPapers(IF TruthyInt(limit) THEN Limit(s, limit[1]) ELSE s) :
        s \in OrderBy(Where(db, IsPending), PublishedDesc)}

\* Database.get_all_papers: its possible results.
Database_get_all_papers(db, limit) ==
    {ToPapers(IF TruthyInt(limit) THEN Limit(s, limit[1]) ELSE s) :
        s \in OrderBy(Where(db, AnyRow), PublishedDesc)}

\* Database.get_papers_by_date sorting by relevance_score ascending.
Database_get_papers_by_date_asc(db, target_date, status) ==
    LET OnDate(row) == row.published_date = isoformat(target_date)
        OnDateWithStatus(row) == OnDate(row) /\ row.status = status[1]
    IN  IF TruthyStr(status)
        THEN {ToPapers(s) : s \in OrderBy(Where(db, OnDateWithStatus), ScoreAsc)}
        ELSE {ToPapers(s) : s \in OrderBy(Where(db, OnDate), ScoreAsc)}

\* Database.get_papers_by_date: its possible results.
Database_get_papers_by_date(db, target_date, status) ==
    LET OnDate(row) == row.published_date = isoformat(target_date)
        OnDateWithStatus(row) == OnDate(row) /\ row.status = status[1]
    IN  IF TruthyStr(status)
        THEN {ToPapers(s) : s \in OrderBy(Where(db, OnDateWithStatus), ScoreDesc)}
        ELSE {ToPapers(s) : s \in OrderBy(Where(db, OnDate), ScoreDesc)}

----------------------------------------------------------------------------
(* Updates                                                                 *)

\* Database.update_paper_summary writing the summary text alone.
Database_update_paper_summary_partial(db, paper_id, summary, key_points, relevance_score) ==
    [db |-> [i \in Stored(db) |->
                IF i = paper_id
                THEN [db[i] EXCEPT !.summary = Some(summary),
                                   !.status = "summarized"]
                ELSE db[i]],
     ret |-> paper_id \in Stored(db)]

\* Database.update_paper_summary without "status = 'summarized'" in its SET.
Database_update_paper_summary_nostatus(db, paper_id, summary, key_points, relevance_score) ==
    [db |-> [i \in Stored(db) |->
                IF i = paper_id
                THEN [db[i] EXCEPT !.summary = Some(summary),
                                   !.key_points = Some(key_points),
                                   !.relevance_score = Some(relevance_score)]
                ELSE db[i]],
     ret |-> paper_id \in Stored(db)]

\* Database.update_paper_summary: one UPDATE ... WHERE id = ?; rowcount > 0.
Database_update_paper_summary(db, paper_id, summary, key_points, relevance_score) ==
    [db |-> [i \in Stored(db) |->
                IF i = paper_id
                THEN [db[i] EXCEPT !.summary = Some(summary),
                                   !.key_points = Some(key_points),
                                   !.relevance_score = Some(relevance_score),
                                   !.status = "summarized"]
                ELSE db[i]],
     ret |-> paper_id \in Stored(db)]

\* Database.mark_reported returning the length of the id list.
mark_reported_len(db, paper_ids) ==
    [db |-> [i \in Stored(db) |->
                IF i \in Range(paper_ids)
                THEN [db[i] EXCEPT !.status = "reported"]
                ELSE db[i]],
     ret |-> Len(paper_ids)]

\* Database.mark_reported with an UPDATE that has no WHERE clause.
mark_reported_all(db, paper_ids) ==
    [db |-> [i \in Stored(db) |-> [db[i] EXCEPT !.status = "reported"]],
     ret |-> Cardinality(Stored(db))]

\* Database.mark_reported: one UPDATE ... WHERE id IN (...); rowcount.
mark_reported(db, paper_ids) ==
    [db |-> [i \in Stored(db) |->
                IF i \in Range(paper_ids)
                THEN [db[i] EXCEPT !.status = "reported"]
                ELSE db[i]],
     ret |-> Cardinality(Stored(db) \cap Range(paper_ids))]

----------------------------------------------------------------------------
(* paper_tracker/store/__init__.py: the functions the commands call        *)

\* getattr(obj, name, default)
getattr(obj, name, default) == IF name \in DOMAIN obj THEN obj[name] ELSE default

\* save_papers, the conversion of one fetched paper object to a database.Paper.
ToStorePaper(paper_data) ==
    Paper(paper_data.id,
          paper_data.title,
          join(", ", paper_data.authors),
          paper_data.abstract,
          getattr(paper_data, "url", <<"https://arxiv.org/abs/", paper_data.id>>),
          paper_data.pdf_url,
          paper_data.published_date,
          getattr(paper_data, "fetched_date", paper_data.published_date))

\* save_papers counting every paper of the batch, added or not.
RECURSIVE save_papers_from_counting_all(_, _, _)
save_papers_from_counting_all(db, batch, count) ==
    IF Len(batch) = 0 THEN [db |-> db, ret |-> count]
    ELSE LET r == add_paper(db, ToStorePaper(batch[1]))
         IN  save_papers_from_counting_all(r.db, Tail(batch), count + 1)

\* save_papers: add_paper for each paper in turn, counting the True results.
RECURSIVE save_papers_from(_, _, _)
save_papers_from(db, batch, count) ==
    IF Len(batch) = 0 THEN [db |-> db, ret |-> count]
    ELSE LET r == add_paper(db, ToStorePaper(batch[1]))
         IN  save_papers_from(r.db, Tail(batch), IF r.ret THEN count + 1 ELSE count)

save_papers(db, batch) == save_papers_from(db, batch, 0)

\* update_paper_summary for a summary object (one that has summary_text):
\* the key points joined by newlines, the score rescaled from 0-1 to 0-10.
update_paper_summary(db, paper_id, summary) ==
    Database_update_paper_summary(db, paper_id,
        summary.summary_text,
        join("\n", getattr(summary, "key_points", <<>>)),
        getattr(summary, "relevance_score", 0) * 10)

\* get_pending_papers: its possible results.
get_pending_papers(db, limit, include_summarized) ==
    IF include_summarized
    THEN Database_get_all_papers(db, limit)
    ELSE Database_get_pending_papers(db, limit)

\* get_papers_by_date: its possible results.
get_papers_by_date(db, target_date, status) ==
    Database_get_papers_by_date(db, target_date, status)

\* The methods class Database defines.
DatabaseMethods ==
    {"connect", "close", "init_db", "add_paper", "get_paper", "get_pending_papers",
     "get_papers_by_date", "update_paper_summary", "mark_reported",
     "get_all_papers", "_row_to_paper"}

\* get_latest_paper_date: db.get_latest_paper_date() is an attribute lookup on
\* a Database, which raises AttributeError for a name the class does not define.
get_latest_paper_date_raises == "get_latest_paper_date" \notin DatabaseMethods

----------------------------------------------------------------------------
(* Inputs                                                                  *)

PaperIds == 1..MaxPapers

\* Each id is offered by the catalog in two versions that differ in every
\* field but the id.
Versions == {1, 2}

Dates == <<Date(2025, 7, 5), Date(2025, 7, 15), Date(2025, 10, 2)>>

DateInputs == Range(Dates)

\* fetcher.arxiv.Paper objects: no url and no fetched_date attribute.
FetchedPaper(i, v) ==
    [id |-> i,
     title |-> IF v = 1 THEN "Paper A" ELSE "Paper B",
     authors |-> IF v = 1 THEN <<"Author One">> ELSE <<"Author One", "Author Two">>,
     abstract |-> IF v = 1 THEN "Abstract A" ELSE "Abstract B",
     pdf_url |-> <<"https://arxiv.org/pdf/", i, IF v = 1 THEN "v1.pdf" ELSE "v2.pdf">>,
     published_date |-> Dates[((i + v) % Len(Dates)) + 1],
     categories |-> <<"cs.AI">>]

FetchedPapers == {FetchedPaper(i, v) : i \in PaperIds, v \in Versions}

\* Summary objects as the summarizer returns them.
SummaryInputs ==
    {[summary_text |-> "Summary", key_points |-> <<"P1", "P2">>,
      main_contributions |-> <<"C1">>, relevance_score |-> 900],
     [summary_text |-> "Other summary", key_points |-> <<>>,
      main_contributions |-> <<>>, relevance_score |-> 0]}

LimitInputs == {Null} \cup {Some(n) : n \in 0..MaxLimit}

StatusInputs == {Null} \cup {Some(s) : s \in Statuses}

----------------------------------------------------------------------------
(* The store and the commands                                              *)

\* A call is the record of its name and of every argument a call can have,
\* each with one shape: an argument the call does not have is Null (paper,
\* summary, limit, target_date, status), empty (batch, paper_ids), 0
\* (paper_id) or FALSE (flag: include_summarized, force).
NoCall ==
    [op |-> "", paper |-> Null, batch |-> <<>>, paper_id |-> 0, summary |-> Null,
     paper_ids |-> <<>>, limit |-> Null, flag |-> FALSE, target_date |-> Null,
     status |-> Null]

\* A returned Python value: None, a bool, an int, a Paper (the one element of
\* list), a list of Papers, a date, or, for report, the ids in the digest
\* written.
NoneValue ==
    [kind |-> "None", bool |-> FALSE, int |-> 0, list |-> <<>>, ids |-> <<>>,
     date |-> Null]
BoolValue(b) == [NoneValue EXCEPT !.kind = "bool", !.bool = b]
IntValue(n) == [NoneValue EXCEPT !.kind = "int", !.int = n]
PaperValue(p) == [NoneValue EXCEPT !.kind = "Paper", !.list = <<p>>]
ListValue(l) == [NoneValue EXCEPT !.kind = "list", !.list = l]
DateValue(d) == [NoneValue EXCEPT !.kind = "date", !.date = Some(d)]
DigestValue(ids) == [NoneValue EXCEPT !.kind = "digest", !.ids = ids]

\* No invocation is under way: the next one can start.
Idle == call = NoCall

\* No PaperFilter has been constructed.
NoFilter ==
    /\ keywords = <<>>
    /\ case_sensitive = FALSE
    /\ candidates = <<>>
    /\ results = <<>>
    /\ earlier = <<>>

\* No response has been handed to the summarizer.
NoResponse ==
    /\ response = <<>>
    /\ paper_summary = <<>>

\* The days the clock shows.
Calendar == <<Date(2025, 6, 30), Date(2025, 7, 1), Date(2025, 7, 2)>>

\* A command line: the command and every option a command can have, each with
\* one shape; an option the command does not have is Null (date), 0 (limit)
\* or FALSE.
NoCommandLine ==
    [name |-> "", date |-> Null, dry_run |-> FALSE, limit |-> 0, force |-> FALSE,
     report_only |-> FALSE, summarize_only |-> FALSE, no_report |-> FALSE]

\* No command line is being executed.
NoCommand ==
    /\ today = Calendar[2]
    /\ command = NoCommandLine
    /\ pc = ""
    /\ stages = <<>>
    /\ catalog = Null
    /\ selection = <<>>
    /\ in_flight = {}
    /\ called = <<>>
    /\ updated = <<>>
    /\ failed = {}

\* load_config has not been called.
NoConfig ==
    /\ config_file = Null
    /\ environ = Null
    /\ settings = Null

Init ==
    /\ papers = <<>>
    /\ call = NoCall
    /\ ret = NoneValue
    /\ raised = ""
    /\ queue = <<>>
    /\ feed = <<>>
    /\ parsed = Null
    /\ NoFilter
    /\ NoResponse
    /\ NoCommand
    /\ NoConfig

\* Database.add_paper(paper)
AddPaper ==
    /\ Idle
    /\ \E f \in FetchedPapers :
        LET paper == ToStorePaper(f)
            r == add_paper(papers, paper)
        IN  /\ papers' = r.db
            /\ ret' = BoolValue(r.ret)
            /\ call' = [NoCall EXCEPT !.op = "add_paper", !.paper = Some(paper)]
    /\ raised' = ""
    /\ UNCHANGED <<queue, feedVars, filterVars, summarizerVars, cliVars, configVars>>

\* save_papers(db_path, papers), as the fetch command calls it
SavePapers ==
    /\ Idle
    /\ \E batch \in SeqsUpTo(FetchedPapers, MaxBatch) :
        LET r == save_papers(papers, batch)
        IN  /\ papers' = r.db
            /\ ret' = IntValue(r.ret)
            /\ call' = [NoCall EXCEPT !.op = "save_papers", !.batch = batch]
    /\ raised' = ""
    /\ UNCHANGED <<queue, feedVars, filterVars, summarizerVars, cliVars, configVars>>

\* update_paper_summary(db_path, paper_id, summary)
UpdatePaperSummary ==
    /\ Idle
    /\ \E paper_id \in PaperIds, summary \in SummaryInputs :
        LET r == update_paper_summary(papers, paper_id, summary)
        IN  /\ papers' = r.db
            /\ ret' = BoolValue(r.ret)
            /\ call' = [NoCall EXCEPT !.op = "update_paper_summary",
                                      !.paper_id = paper_id,
                                      !.summary = Some(summary)]
    /\ raised' = ""
    /\ UNCHANGED <<queue, feedVars, filterVars, summarizerVars, cliVars, configVars>>

\* Database.mark_reported(paper_ids)
MarkReported ==
    /\ Idle
    /\ \E paper_ids \in SeqsUpTo(PaperIds, MaxBatch) :
        LET r == mark_reported(papers, paper_ids)
        IN  /\ papers' = r.db
            /\ ret' = IntValue(r.ret)
            /\ call' = [NoCall EXCEPT !.op = "mark_reported", !.paper_ids = paper_ids]
    /\ raised' = ""
    /\ UNCHANGED <<queue, feedVars, filterVars, summarizerVars, cliVars, configVars>>

\* Database.get_paper(paper_id)
GetPaper ==
    /\ Idle
    /\ \E paper_id \in PaperIds :
        /\ ret' = LET found == get_paper(papers, paper_id)
                  IN  IF found = Null THEN NoneValue ELSE PaperValue(found[1])
        /\ call' = [NoCall EXCEPT !.op = "get_paper", !.paper_id = paper_id]
    /\ raised' = ""
    /\ UNCHANGED <<papers, queue, feedVars, filterVars, summarizerVars, cliVars, configVars>>

\* get_pending_papers(db_path, limit, include_summarized)
GetPendingPapers ==
    /\ Idle
    /\ \E limit \in LimitInputs, include_summarized \in BOOLEAN :
        /\ \E found \in get_pending_papers(papers, limit, include_summarized) :
            ret' = ListValue(found)
        /\ call' = [NoCall EXCEPT !.op = "get_pending_papers", !.limit = limit,
                                  !.flag = include_summarized]
    /\ raised' = ""
    /\ UNCHANGED <<papers, queue, feedVars, filterVars, summarizerVars, cliVars, configVars>>

\* get_papers_by_date(db_path, target_date, status)
GetPapersByDate ==
    /\ Idle
    /\ \E target_date \in DateInputs, status \in StatusInputs :
        /\ \E found \in get_papers_by_date(papers, target_date, status) :
            ret' = ListValue(found)
        /\ call' = [NoCall EXCEPT !.op = "get_papers_by_date",
                                  !.target_date = Some(target_date),
                                  !.status = status]
    /\ raised' = ""
    /\ UNCHANGED <<papers, queue, feedVars, filterVars, summarizerVars, cliVars, configVars>>

\* get_latest_paper_date(db_path)
GetLatestPaperDate ==
    /\ Idle
    /\ get_latest_paper_date_raises
    /\ raised' = "AttributeError"
    /\ ret' = NoneValue
    /\ call' = [NoCall EXCEPT !.op = "get_latest_paper_date"]
    /\ UNCHANGED <<papers, queue, feedVars, filterVars, summarizerVars, cliVars, configVars>>

\* cli summarize(limit, batch, force), up to the first paper: select the papers;
\* with none, return.  The batches partition the selection in order, so the
\* papers are processed one after another in the order selected.
SummarizeStart ==
    /\ Idle
    /\ \E limit \in LimitInputs \ {Null}, force \in BOOLEAN :
        /\ \E selected \in get_pending_papers(papers, limit, force) :
            /\ queue' = [i \in 1..Len(selected) |-> selected[i].id]
            /\ ret' = IF Len(selected) = 0 THEN NoneValue ELSE IntValue(0)
        /\ call' = [NoCall EXCEPT !.op = "summarize", !.limit = limit, !.flag = force]
    /\ raised' = ""
    /\ UNCHANGED <<papers, feedVars, filterVars, summarizerVars, cliVars, configVars>>

\* cli summarize, one paper of the loop: the summarizer returns a summary,
\* which is stored and counted, or raises, which the loop catches.
SummarizeStep ==
    /\ queue # <<>>
    /\ \/ \E summary \in SummaryInputs :
            /\ papers' = update_paper_summary(papers, Head(queue), summary).db
            /\ ret' = IntValue(ret.int + 1)
       \/ UNCHANGED <<papers, ret>>
    /\ queue' = Tail(queue)
    /\ UNCHANGED <<call, raised, feedVars, filterVars, summarizerVars, cliVars, configVars>>

\* cli report(date): the papers published on the date; with none, return;
\* otherwise the digest of these papers is written.  ret is the ids in the
\* digest, Null when none was written.
Report ==
    /\ Idle
    /\ \E report_date \in DateInputs :
        /\ \E found \in get_papers_by_date(papers, report_date, Null) :
            ret' = IF Len(found) = 0 THEN NoneValue
                   ELSE DigestValue([i \in 1..Len(found) |-> found[i].id])
        /\ call' = [NoCall EXCEPT !.op = "report", !.target_date = Some(report_date)]
    /\ raised' = ""
    /\ UNCHANGED <<papers, queue, feedVars, filterVars, summarizerVars, cliVars, configVars>>

\* The invocation ends: the process exits and its result is gone; the table
\* is what the next invocation finds.
Return ==
    /\ ~Idle
    /\ queue = <<>>
    /\ call' = NoCall
    /\ ret' = NoneValue
    /\ raised' = ""
    /\ UNCHANGED <<papers, queue, feedVars, filterVars, summarizerVars, cliVars, configVars>>

Next ==
    \/ AddPaper
    \/ SavePapers
    \/ UpdatePaperSummary
    \/ MarkReported
    \/ GetPaper
    \/ GetPendingPapers
    \/ GetPapersByDate
    \/ GetLatestPaperDate
    \/ SummarizeStart
    \/ SummarizeStep
    \/ Report
    \/ Return

Spec == Init /\ [][Next]_vars

----------------------------------------------------------------------------
(* The feed parser: ArxivFetcher._parse_response and _parse_entry          *)
(*                                                                         *)
(* A text of the feed is the sequence of its characters.  An entry is a    *)
(* record of its child elements: id, title, summary and published are      *)
(* Null when the element is missing or has no text, else Some(text);       *)
(* authors is the sequence of the name texts (Null for an author without   *)
(* one); links is the sequence of [type, href] (href Null when the         *)
(* attribute is missing); categories the sequence of term attributes.  A   *)
(* published text is [iso |-> whether datetime.fromisoformat accepts it,   *)
(* date |-> the calendar date it then names].                              *)

MaxEntries == 2     \* entries in one feed

Whitespace == {" ", "\n", "\t"}

PdfType == "application/pdf"

\* str.strip()
RECURSIVE lstrip(_)
lstrip(s) == IF Len(s) > 0 /\ s[1] \in Whitespace THEN lstrip(Tail(s)) ELSE s

RECURSIVE rstrip(_)
rstrip(s) ==
    IF Len(s) > 0 /\ s[Len(s)] \in Whitespace
    THEN rstrip(SubSeq(s, 1, Len(s) - 1))
    ELSE s

strip(s) == rstrip(lstrip(s))

\* str.replace(old, new) for one-character old and new
replace(s, old, new) == [i \in 1..Len(s) |-> IF s[i] = old THEN new ELSE s[i]]

\* text.split(sep)[-1]: what follows the last sep, the whole text without one.
split_last(s, sep) ==
    LET at == {i \in 1..Len(s) : s[i] = sep}
    IN  IF at = {} THEN s
        ELSE SubSeq(s, (CHOOSE i \in at : \A j \in at : j <= i) + 1, Len(s))

\* entry.find("atom:link[@type='application/pdf']"): the first such link.
find_pdf_link(links) ==
    LET at == {i \in 1..Len(links) : links[i].type = PdfType}
    IN  IF at = {} THEN Null
        ELSE Some(links[CHOOSE i \in at : \A j \in at : i <= j])

\* The name texts of the authors that have one, in order.
RECURSIVE author_names(_)
author_names(authors) ==
    IF Len(authors) = 0 THEN <<>>
    ELSE (IF authors[1] # Null THEN <<authors[1][1]>> ELSE <<>>)
         \o author_names(Tail(authors))

\* The non-empty term attributes, in order.
RECURSIVE category_terms(_)
category_terms(categories) ==
    IF Len(categories) = 0 THEN <<>>
    ELSE (IF categories[1] # Null /\ categories[1] # Some("")
          THEN <<categories[1][1]>> ELSE <<>>)
         \o category_terms(Tail(categories))

\* fetcher.arxiv.Paper
FetcherPaper(id, title, authors, abstract, pdf_url, published_date, categories) ==
    [id |-> id, title |-> title, authors |-> authors, abstract |-> abstract,
     pdf_url |-> pdf_url, published_date |-> published_date,
     categories |-> categories]

\* What _parse_entry does: it returns a Paper (Some), returns None (Null), or
\* raises.
Returned(v) == [raises |-> FALSE, value |-> v]
Raises == [raises |-> TRUE, value |-> Null]

\* _parse_entry without the check that the PDF link was found.
_parse_entry_nopdfcheck(entry) ==
    IF entry.id = Null THEN Returned(Null)
    ELSE IF entry.title = Null THEN Returned(Null)
    ELSE IF entry.summary = Null THEN Returned(Null)
    ELSE IF entry.published = Null THEN Returned(Null)
    ELSE IF ~entry.published[1].iso THEN Raises
    ELSE LET pdf_elem == find_pdf_link(entry.links)
         IN  Returned(Some(FetcherPaper(
                split_last(entry.id[1], "/"),
                replace(strip(entry.title[1]), "\n", " "),
                author_names(entry.authors),
                replace(strip(entry.summary[1]), "\n", " "),
                IF pdf_elem = Null \/ pdf_elem[1].href = Null
                    THEN "" ELSE pdf_elem[1].href[1],
                entry.published[1].date,
                category_terms(entry.categories))))

\* ArxivFetcher._parse_entry
_parse_entry(entry) ==
    IF entry.id = Null THEN Returned(Null)
    ELSE IF entry.title = Null THEN Returned(Null)
    ELSE IF entry.summary = Null THEN Returned(Null)
    ELSE LET pdf_elem == find_pdf_link(entry.links)
         IN  IF pdf_elem = Null THEN Returned(Null)
             ELSE IF entry.published = Null THEN Returned(Null)
             ELSE IF ~entry.published[1].iso THEN Raises
             ELSE Returned(Some(FetcherPaper(
                    split_last(entry.id[1], "/"),
                    replace(strip(entry.title[1]), "\n", " "),
                    author_names(entry.authors),
                    replace(strip(entry.summary[1]), "\n", " "),
                    IF pdf_elem[1].href = Null THEN "" ELSE pdf_elem[1].href[1],
                    entry.published[1].date,
                    category_terms(entry.categories))))

\* ArxivFetcher._parse_response, the loop over the entries of the parsed
\* document: a Paper is appended; a None, or an exception (caught), skips the
\* entry.
RECURSIVE _parse_response_from(_, _)
_parse_response_from(entries, found) ==
    IF Len(entries) = 0 THEN Returned(found)
    ELSE LET r == _parse_entry(entries[1])
         IN  IF r.raises THEN _parse_response_from(Tail(entries), found)
             ELSE IF r.value # Null
                  THEN _parse_response_from(Tail(entries), Append(found, r.value[1]))
                  ELSE _parse_response_from(Tail(entries), found)

\* ArxivFetcher._parse_response
_parse_response(entries) == _parse_response_from(entries, <<>>)

\* Feed entries: two well-formed ones, and a third with one defect at a time.
IdChar == <<"1", "2", "3", "4">>

Entry(k) ==
    [id |-> Some(<<"a", "b", "s", "/", IdChar[k]>>),
     title |-> Some(<<"T", IdChar[k]>>),
     authors |-> <<Some("Author One"), Null, Some("Author Two")>>,
     summary |-> Some(<<"S", " ", IdChar[k]>>),
     links |-> <<[type |-> "text/html", href |-> Some("https://arxiv.org/abs")],
                 [type |-> PdfType, href |-> Some("https://arxiv.org/pdf")]>>,
     published |-> Some([iso |-> TRUE, date |-> Date(2023, 1, 14 + k)]),
     categories |-> <<Some("cs.AI"), Some(""), Some("cs.LG")>>]

EntryInputs ==
    {Entry(1), Entry(2),
     [Entry(3) EXCEPT !.id = Null],
     [Entry(3) EXCEPT !.title = Null],
     [Entry(3) EXCEPT !.summary = Null],
     [Entry(3) EXCEPT !.links = <<[type |-> "text/html", href |-> Some("https://arxiv.org/abs")]>>],
     [Entry(3) EXCEPT !.published = Null],
     [Entry(3) EXCEPT !.published = Some([iso |-> FALSE, date |-> Date(2023, 1, 17)])],
     [Entry(3) EXCEPT !.links = <<[type |-> PdfType, href |-> Null]>>],
     [Entry(3) EXCEPT !.id = Some(<<"a", "b", "s", "/">>)],
     [Entry(3) EXCEPT !.title = Some(<<" ", "\n", " ">>)],
     [Entry(3) EXCEPT !.summary = Some(<<"\t", " ">>)],
     [Entry(3) EXCEPT !.title = Some(<<" ", "T", "\n", " ", " ", "m", " ">>)]}

InitFeed ==
    /\ feed \in SeqsUpTo(EntryInputs, MaxEntries)
    /\ parsed = Null
    /\ papers = <<>>
    /\ call = NoCall
    /\ ret = NoneValue
    /\ raised = ""
    /\ queue = <<>>
    /\ NoFilter
    /\ NoResponse
    /\ NoCommand
    /\ NoConfig

\* _parse_response(xml_content) on the feed
ParseResponse ==
    /\ Idle
    /\ LET r == _parse_response(feed)
       IN  /\ parsed' = IF r.raises THEN Null ELSE Some(r.value)
           /\ raised' = IF r.raises THEN "Exception" ELSE ""
    /\ call' = [NoCall EXCEPT !.op = "_parse_response"]
    /\ UNCHANGED <<papers, ret, queue, feed, filterVars, summarizerVars, cliVars, configVars>>

NextFeed == ParseResponse

SpecFeed == InitFeed /\ [][NextFeed]_vars

----------------------------------------------------------------------------
(* paper_tracker/fetcher/filter.py: keyword matching and scoring           *)
(*                                                                         *)
(* A text is the sequence of its characters.  A relevance score is an      *)
(* integer number of thousandths: the code computes it in floats and       *)
(* rounds it to three decimals, and for the keyword counts of this model   *)
(* the float and the exact quotient round alike (no quotient is half-way   *)
(* between two thousandths).                                               *)

MaxKeywords == 2        \* keywords in a short keyword list
MaxCandidates == 3      \* papers handed to filter
MaxMinMatches == 2      \* min_matches
ManyKeywords == 2001    \* keywords in the long keyword list

\* str.lower(), on the letters of the inputs
lower_char(c) == IF c = "M" THEN "m" ELSE IF c = "L" THEN "l" ELSE c

lower(text) == [i \in 1..Len(text) |-> lower_char(text[i])]

\* keyword in text: the keyword is a contiguous part of the text.
str_contains(text, keyword) ==
    \E i \in 0..(Len(text) - Len(keyword)) :
        SubSeq(text, i + 1, i + Len(keyword)) = keyword

\* PaperFilter(keywords, case_sensitive)
PaperFilter(keyword_list, sensitive) ==
    [keywords |-> [i \in 1..Len(keyword_list) |->
                    IF sensitive THEN keyword_list[i] ELSE lower(keyword_list[i])],
     case_sensitive |-> sensitive]

FilterResult(paper, matched_keywords, relevance_score) ==
    [paper |-> paper, matched_keywords |-> matched_keywords,
     relevance_score |-> relevance_score]

\* _match_keywords searching the title only.
_match_keywords_title(self, paper) ==
    LET searchable == IF self.case_sensitive THEN paper.title ELSE lower(paper.title)
    IN  SelectSeq(self.keywords, LAMBDA keyword : str_contains(searchable, keyword))

\* PaperFilter._match_keywords
_match_keywords(self, paper) ==
    LET text == paper.title \o <<" ">> \o paper.abstract
        searchable == IF self.case_sensitive THEN text ELSE lower(text)
    IN  SelectSeq(self.keywords, LAMBDA keyword : str_contains(searchable, keyword))

\* round(num / den, 3) in thousandths; a half-way quotient goes to the even
\* thousandth.
round_thousandths(num, den) ==
    LET q == (1000 * num) \div den
        r == (1000 * num) % den
    IN  IF 2 * r > den THEN q + 1
        ELSE IF 2 * r < den THEN q
        ELSE IF q % 2 = 0 THEN q ELSE q + 1

\* _calculate_score with the share of the keywords that did not match.
_calculate_score_unmatched(self, paper, matched_keywords) ==
    IF Len(matched_keywords) = 0 THEN 0
    ELSE LET n == Len(self.keywords)
             m == Len(matched_keywords)
             title_text == IF self.case_sensitive THEN paper.title ELSE lower(paper.title)
             title_matches ==
                Len(SelectSeq(matched_keywords, LAMBDA kw : str_contains(title_text, kw)))
             num == 5 * m * (n - m) + title_matches * n
             den == 5 * m * n
         IN  IF num >= den THEN 1000 ELSE round_thousandths(num, den)

\* PaperFilter._calculate_score:
\* min(1.0, m / n + 0.2 * (title_matches / m)) = min(1, num / den).
_calculate_score(self, paper, matched_keywords) ==
    IF Len(matched_keywords) = 0 THEN 0
    ELSE LET n == Len(self.keywords)
             m == Len(matched_keywords)
             title_text == IF self.case_sensitive THEN paper.title ELSE lower(paper.title)
             title_matches ==
                Len(SelectSeq(matched_keywords, LAMBDA kw : str_contains(title_text, kw)))
             num == 5 * m * m + title_matches * n
             den == 5 * m * n
         IN  IF num >= den THEN 1000 ELSE round_thousandths(num, den)

\* The sorted list with one more result: after the results that score at
\* least as much (before, when the order of equals is reversed).
RECURSIVE insert_by_score(_, _, _)
insert_by_score(sorted, result, equals_first) ==
    IF Len(sorted) = 0 THEN <<result>>
    ELSE IF \/ sorted[1].relevance_score > result.relevance_score
            \/ equals_first /\ sorted[1].relevance_score = result.relevance_score
         THEN <<sorted[1]>> \o insert_by_score(Tail(sorted), result, equals_first)
         ELSE <<result>> \o sorted

RECURSIVE sort_from(_, _, _)
sort_from(sorted, rest, equals_first) ==
    IF Len(rest) = 0 THEN sorted
    ELSE sort_from(insert_by_score(sorted, rest[1], equals_first), Tail(rest),
                   equals_first)

\* A descending sort that reverses the order of equal scores.
sort_by_relevance_reversing(found) == sort_from(<<>>, found, FALSE)

\* results.sort(key=lambda r: r.relevance_score, reverse=True): stable, the
\* results of equal score keep their order.
sort_by_relevance(found) == sort_from(<<>>, found, TRUE)

\* PaperFilter.filter, the loop over the papers.
RECURSIVE filter_from(_, _, _, _)
filter_from(self, paper_list, min_matches, found) ==
    IF Len(paper_list) = 0 THEN found
    ELSE LET paper == paper_list[1]
             matched == _match_keywords(self, paper)
         IN  filter_from(self, Tail(paper_list), min_matches,
                IF Len(matched) >= min_matches
                THEN Append(found,
                        FilterResult(paper, matched, _calculate_score(self, paper, matched)))
                ELSE found)

\* PaperFilter.filter
filter(self, paper_list, min_matches) ==
    sort_by_relevance(filter_from(self, paper_list, min_matches, <<>>))

\* Keywords: two casings of one word, a second word, a word no paper has,
\* and the empty keyword.
KeywordInputs == {<<"M", "L">>, <<"m", "l">>, <<"n", "n">>, <<"z">>, <<>>}

\* A keyword list of which only the first keyword occurs in a paper.
LongKeywordList == [i \in 1..ManyKeywords |-> IF i = 1 THEN <<"m", "l">> ELSE <<"z">>]

\* The papers: the word in the title, in the abstract only (in two casings),
\* and in neither.
Candidate(k) ==
    FetcherPaper(<<IdChar[k]>>,
        IF k = 1 THEN <<"M", "l", " ", "x">> ELSE <<"x">>,
        <<"Author One">>,
        IF k = 1 THEN <<"n", "n">>
        ELSE IF k = 2 THEN <<"m", "l">>
        ELSE IF k = 3 THEN <<"M", "L", " ", "n", "n">>
        ELSE <<"q">>,
        "https://arxiv.org/pdf",
        Date(2023, 1, 14 + k),
        <<"cs.AI">>)

\* The paper lists: each paper once at most.
CandidateLists ==
    {l \in SeqsUpTo({Candidate(k) : k \in 1..4}, MaxCandidates) :
        \A i, j \in 1..Len(l) : i # j => l[i] # l[j]}

InitFilter ==
    /\ keywords \in SeqsUpTo(KeywordInputs, MaxKeywords) \cup {LongKeywordList}
    /\ case_sensitive \in BOOLEAN
    /\ candidates \in CandidateLists
    /\ results = Null
    /\ earlier = Null
    /\ papers = <<>>
    /\ call = NoCall
    /\ ret = NoneValue
    /\ raised = ""
    /\ queue = <<>>
    /\ feed = <<>>
    /\ parsed = Null
    /\ NoResponse
    /\ NoCommand
    /\ NoConfig

\* PaperFilter(keywords, case_sensitive).filter(candidates, min_matches)
Filter ==
    /\ results = Null
    /\ \E min_matches \in 0..MaxMinMatches :
        results' = Some([min_matches |-> min_matches,
                         list |-> filter(PaperFilter(keywords, case_sensitive),
                                         candidates, min_matches)])
    /\ call' = [NoCall EXCEPT !.op = "filter"]
    /\ UNCHANGED <<papers, ret, raised, queue, feedVars, keywords, case_sensitive,
                   candidates, earlier, summarizerVars, cliVars, configVars>>

\* The same call on a PaperFilter constructed with one more keyword.
FilterWithOneMore ==
    /\ results # Null
    /\ earlier = Null
    /\ Len(keywords) < MaxKeywords
    /\ \E keyword \in KeywordInputs :
        /\ keywords' = Append(keywords, keyword)
        /\ results' = Some([min_matches |-> results[1].min_matches,
                            list |-> filter(PaperFilter(keywords', case_sensitive),
                                            candidates, results[1].min_matches)])
    /\ earlier' = results
    /\ UNCHANGED <<papers, call, ret, raised, queue, feedVars, case_sensitive,
                   candidates, summarizerVars, cliVars, configVars>>

NextFilter == Filter \/ FilterWithOneMore

SpecFilter == InitFilter /\ [][NextFilter]_vars

----------------------------------------------------------------------------
(* paper_tracker/summarizer: the parser of the AI response                 *)
(*                                                                         *)
(* The module is not among the sources; it is modelled from section 4.4    *)
(* of the specification and from tests/test_summarizer.py.                 *)
(*                                                                         *)
(* A response is the sequence of its characters, where one element stands  *)
(* for each piece of JSON the parser does not look into: "[]" for an array *)
(* literal, and for a member of an object one of the field tokens below    *)
(* (a key with a value of the expected type, or of another type).  "{" and *)
(* "}" are themselves; FenceOpen stands for the line that opens a fenced   *)
(* block tagged json, FenceClose for the line that closes a block.         *)

MaxProse == 1               \* characters of prose before and after the body
LongResponseLength == 600   \* characters of the long response
FallbackLength == 500       \* characters of the response a fallback keeps

FenceOpen == "fence json"
FenceClose == "fence"

\* The members an object of a response may have: the key, the value, and
\* whether the value has the type expected for the key.
FieldToken ==
    [kp  |-> [key |-> "key_points", value |-> <<"P1">>, typed |-> TRUE],
     kp2 |-> [key |-> "key_points", value |-> <<"P1", "P2">>, typed |-> TRUE],
     kpx |-> [key |-> "key_points", value |-> "oops", typed |-> FALSE],
     mc  |-> [key |-> "main_contributions", value |-> <<"C1">>, typed |-> TRUE],
     rs  |-> [key |-> "relevance_score", value |-> 900, typed |-> TRUE],
     rsx |-> [key |-> "relevance_score", value |-> "high", typed |-> FALSE],
     st  |-> [key |-> "summary_text", value |-> <<"S">>, typed |-> TRUE],
     st2 |-> [key |-> "summary_text", value |-> <<"S", "2">>, typed |-> TRUE]]

FieldTokens == DOMAIN FieldToken

PaperSummary(paper_id, key_points, main_contributions, relevance_score, summary_text) ==
    [paper_id |-> paper_id, key_points |-> key_points,
     main_contributions |-> main_contributions,
     relevance_score |-> relevance_score, summary_text |-> summary_text]

\* Parsing a text as JSON: Null when it is not JSON; otherwise whether it is
\* an object, and the members of the object.
json_loads(text) ==
    LET t == strip(text)
    IN  IF /\ Len(t) >= 2 /\ t[1] = "{" /\ t[Len(t)] = "}"
           /\ \A i \in 2..(Len(t) - 1) : t[i] \in FieldTokens \cup Whitespace
        THEN Some([object |-> TRUE,
                   members |-> SelectSeq(SubSeq(t, 2, Len(t) - 1),
                                         LAMBDA c : c \in FieldTokens)])
        ELSE IF t = <<"[]">> THEN Some([object |-> FALSE, members |-> <<>>])
        ELSE Null

\* data.get(key, default): the value of the last member with the key.
member(members, key, default) ==
    LET at == {i \in 1..Len(members) : FieldToken[members[i]].key = key}
    IN  IF at = {} THEN default
        ELSE FieldToken[members[CHOOSE i \in at : \A j \in at : j <= i]].value

\* The summary a parsed text has the shape of: Null when the text is not
\* JSON, not an object, or has a member of another type than expected.
summary_of(paper_id, text) ==
    LET data == json_loads(text)
    IN  IF data = Null THEN Null
        ELSE IF ~data[1].object THEN Null
        ELSE IF \E i \in 1..Len(data[1].members) : ~FieldToken[data[1].members[i]].typed
        THEN Null
        ELSE Some(PaperSummary(paper_id,
                member(data[1].members, "key_points", <<>>),
                member(data[1].members, "main_contributions", <<>>),
                member(data[1].members, "relevance_score", 0),
                member(data[1].members, "summary_text", <<>>)))

\* The content of the first fenced block tagged json, Null without one.
fenced_block(text) ==
    LET opens == {i \in 1..Len(text) : text[i] = FenceOpen}
    IN  IF opens = {} THEN Null
        ELSE LET i == CHOOSE a \in opens : \A b \in opens : a <= b
                 closes == {j \in (i + 1)..Len(text) : text[j] = FenceClose}
             IN  IF closes = {} THEN Null
                 ELSE Some(SubSeq(text, i + 1,
                        (CHOOSE a \in closes : \A b \in closes : a <= b) - 1))

\* The braces open after the characters i..j of the text.
brace_depth(text, i, j) ==
    Cardinality({k \in i..j : text[k] = "{"}) - Cardinality({k \in i..j : text[k] = "}"})

\* The first object literal of the text: from its first "{" to the "}" that
\* balances it; Null without one.
first_object_literal(text) ==
    LET opens == {i \in 1..Len(text) : text[i] = "{"}
    IN  IF opens = {} THEN Null
        ELSE LET i == CHOOSE a \in opens : \A b \in opens : a <= b
                 closes == {j \in i..Len(text) : brace_depth(text, i, j) = 0}
             IN  IF closes = {} THEN Null
                 ELSE Some(SubSeq(text, i, CHOOSE a \in closes : \A b \in closes : a <= b))

\* The fallback summary with a marker after the cut.
fallback_summary_marked(paper_id, text) ==
    PaperSummary(paper_id, <<>>, <<>>, 0,
        IF Len(text) > FallbackLength
        THEN Append(SubSeq(text, 1, FallbackLength), "...") ELSE text)

\* The fallback summary: the response cut to FallbackLength characters.
fallback_summary(paper_id, text) ==
    PaperSummary(paper_id, <<>>, <<>>, 0, SubSeq(text, 1, Min(Len(text), FallbackLength)))

\* The cascade with the object literal tried before the fenced block.
Summarizer_parse_response_literal_first(paper_id, text) ==
    LET direct == summary_of(paper_id, text)
        block == fenced_block(text)
        fenced == IF block = Null THEN Null ELSE summary_of(paper_id, block[1])
        literal == first_object_literal(text)
        embedded == IF literal = Null THEN Null ELSE summary_of(paper_id, literal[1])
    IN  IF direct # Null THEN Returned(direct[1])
        ELSE IF embedded # Null THEN Returned(embedded[1])
        ELSE IF fenced # Null THEN Returned(fenced[1])
        ELSE Returned(fallback_summary(paper_id, text))

\* The cascade without the check that the parsed JSON is an object.
Summarizer_parse_response_unchecked(paper_id, text) ==
    LET data == json_loads(text)
    IN  IF data # Null /\ ~data[1].object THEN Raises
        ELSE Returned(fallback_summary(paper_id, text))

\* Summarizer._parse_response(paper_id, response): the whole response, then
\* the fenced block, then the first object literal, then the fallback.
Summarizer_parse_response(paper_id, text) ==
    LET direct == summary_of(paper_id, text)
        block == fenced_block(text)
        fenced == IF block = Null THEN Null ELSE summary_of(paper_id, block[1])
        literal == first_object_literal(text)
        embedded == IF literal = Null THEN Null ELSE summary_of(paper_id, literal[1])
    IN  IF direct # Null THEN Returned(direct[1])
        ELSE IF fenced # Null THEN Returned(fenced[1])
        ELSE IF embedded # Null THEN Returned(embedded[1])
        ELSE Returned(fallback_summary(paper_id, text))

\* The bodies of the responses.
ResponseBodies ==
    {<<>>,
     <<"{", "kp", "mc", "rs", "st", "}">>,
     <<"{", "\n", "kp2", "}">>,
     <<"{", "kpx", "st", "}">>,
     <<"{", "kp", "rsx", "}">>,
     <<"[]">>,
     <<"n", "o">>,
     <<FenceOpen, "{", "kp", "rs", "st", "}", FenceClose>>,
     <<FenceOpen, "n", "o", FenceClose>>,
     <<"{", "st2", "}", " ", FenceOpen, "{", "kp", "}", FenceClose>>,
     <<FenceClose, "{", "kp2", "st", "}", FenceClose>>,
     <<"{", "kp", "}", "o", "{", "st", "}">>,
     <<"{", "o", "}", "{", "kp", "}">>,
     <<"{", "kp">>,
     [i \in 1..LongResponseLength |-> "x"]}

Prose(c) == {[i \in 1..n |-> c] : n \in 0..MaxProse}

ResponseInputs ==
    {[paper_id |-> id, text |-> before \o body \o after] :
        id \in {"2301.12345", "2301.00001"},
        before \in Prose("b"), body \in ResponseBodies, after \in Prose("a")}

InitSummarizer ==
    /\ response \in ResponseInputs
    /\ paper_summary = Null
    /\ papers = <<>>
    /\ call = NoCall
    /\ ret = NoneValue
    /\ raised = ""
    /\ queue = <<>>
    /\ feed = <<>>
    /\ parsed = Null
    /\ NoFilter
    /\ NoCommand
    /\ NoConfig

\* Summarizer._parse_response(paper_id, response)
ParseSummaryResponse ==
    /\ Idle
    /\ LET r == Summarizer_parse_response(response.paper_id, response.text)
       IN  /\ paper_summary' = IF r.raises THEN Null ELSE Some(r.value)
           /\ raised' = IF r.raises THEN "Exception" ELSE ""
    /\ call' = [NoCall EXCEPT !.op = "Summarizer._parse_response"]
    /\ UNCHANGED <<papers, ret, queue, feedVars, filterVars, response,
                   cliVars, configVars>>

NextSummarizer == ParseSummaryResponse

SpecSummarizer == InitSummarizer /\ [][NextSummarizer]_vars

----------------------------------------------------------------------------
(* paper_tracker/cli.py: the commands fetch, summarize, report and run     *)
(*                                                                         *)
(* A command line is executed stage by stage; run invokes the stages of    *)
(* the other commands in turn.  The catalog answers within the step of the *)
(* fetch stage.  The AI call of summarize has one step for its start and   *)
(* one for its end: the summarizer is the collaborator behind              *)
(* Summarizer.summarize_paper, which returns a summary or raises.  No      *)
(* keywords are configured (the default), so fetch_papers applies no       *)
(* filter to what the parser returned.                                     *)

\* calendar.monthrange(year, month)[1]
DaysIn(year, month) ==
    IF month \in {4, 6, 9, 11} THEN 30
    ELSE IF month # 2 THEN 31
    ELSE IF year % 4 = 0 /\ (year % 100 # 0 \/ year % 400 = 0) THEN 29
    ELSE 28

\* d - timedelta(days=1)
minus_one_day(d) ==
    IF d.day > 1 THEN Date(d.year, d.month, d.day - 1)
    ELSE IF d.month > 1
         THEN Date(d.year, d.month - 1, DaysIn(d.year, d.month - 1))
         ELSE Date(d.year - 1, 12, 31)

\* datetime.strptime(text, "%Y-%m-%d").date() of a zero-padded text
strptime_date(text) == fromisoformat(text)

\* The papers of the catalog: the paper with id i, published on one of the
\* first two days of the calendar.
CatalogPaper(i) ==
    [FetchedPaper(i, 1) EXCEPT !.published_date = Calendar[((i - 1) % 2) + 1]]

\* What the catalog answers to the query for a date: the request fails
\* (network error or non-success status), or the feed holds no paper, or it
\* holds the papers published on the date.
CatalogAnswers(d) ==
    {[ok |-> FALSE, papers |-> <<>>],
     [ok |-> TRUE, papers |-> <<>>],
     [ok |-> TRUE,
      papers |-> SelectSeq([i \in PaperIds |-> CatalogPaper(i)],
                           LAMBDA paper : paper.published_date = d)]}

\* fetch_papers answering a failed request with the empty list.
fetch_papers_swallowing(answer) ==
    IF answer.ok THEN Returned(answer.papers) ELSE Returned(<<>>)

\* fetcher.fetch_papers: ArxivFetcher.fetch_papers raises what client.get or
\* raise_for_status raised, and the try/finally around it passes it on.
fetch_papers(answer) ==
    IF answer.ok THEN Returned(answer.papers) ELSE Raises

\* for i in range(0, len(papers), batch): papers[i : i + batch], the batches
\* one after another.
RECURSIVE in_batches(_, _)
in_batches(found, batch) ==
    IF Len(found) = 0 THEN <<>>
    ELSE SubSeq(found, 1, Min(batch, Len(found)))
         \o in_batches(SubSeq(found, Min(batch, Len(found)) + 1, Len(found)), batch)

BatchOptions == {1, 2, 5}

\* The loop of summarize starting the AI calls of all remaining papers at once.
summarize_all_at_once(remaining) == remaining

\* for paper in batch_papers: asyncio.run(summarizer.summarize_paper(paper)):
\* the call for the next paper is started, and awaited before anything else.
summarize_next(remaining) == <<Head(remaining)>>

DateOptions == {Null} \cup {Some(isoformat(d)) : d \in Range(Calendar)}

\* The command lines: fetch [--date D] [--dry-run], summarize --limit N
\* [--force], report [--date D], run --summarize-limit N [--report-only]
\* [--summarize-only] [--no-report].
CommandLines ==
    {[NoCommandLine EXCEPT !.name = "fetch", !.date = d, !.dry_run = b] :
        d \in DateOptions, b \in BOOLEAN}
    \cup {[NoCommandLine EXCEPT !.name = "summarize", !.limit = n, !.force = b] :
        n \in 0..MaxLimit, b \in BOOLEAN}
    \cup {[NoCommandLine EXCEPT !.name = "report", !.date = d] : d \in DateOptions}
    \cup {[NoCommandLine EXCEPT !.name = "run", !.limit = n, !.report_only = r,
                                !.summarize_only = o, !.no_report = x] :
        n \in 0..MaxLimit, r \in BOOLEAN, o \in BOOLEAN, x \in BOOLEAN}

\* The stage a command line starts with.
FirstStage(line) ==
    IF line.name # "run" THEN line.name
    ELSE IF line.report_only THEN "report"
    ELSE IF line.summarize_only THEN "summarize"
    ELSE "fetch"

\* Where the execution stands once a stage has returned.
AfterStage(line, stage) ==
    IF line.name # "run" THEN "done"
    ELSE IF stage = "fetch" THEN "summarize"
    ELSE IF stage = "summarize" /\ ~line.summarize_only /\ ~line.no_report
         THEN "report"
    ELSE "done"

Stage(name, date) == [name |-> name, date |-> date]

InitCli ==
    /\ papers = <<>>
    /\ call = NoCall
    /\ ret = NoneValue
    /\ raised = ""
    /\ queue = <<>>
    /\ feed = <<>>
    /\ parsed = Null
    /\ NoFilter
    /\ NoResponse
    /\ NoCommand
    /\ NoConfig

\* A day passes between two command lines.
Tick ==
    /\ pc = ""
    /\ \E d \in Range(Calendar) : DateLess(today, d) /\ today' = d
    /\ UNCHANGED <<storeVars, feedVars, filterVars, summarizerVars, configVars,
                   command, pc, stages, catalog, selection, in_flight, called,
                   updated, failed>>

\* A command line is entered.
Invoke ==
    /\ pc = ""
    /\ \E line \in CommandLines :
        /\ command' = line
        /\ pc' = FirstStage(line)
    /\ UNCHANGED <<storeVars, feedVars, filterVars, summarizerVars, configVars,
                   today, stages, catalog, selection, in_flight, called, updated,
                   failed>>

\* cli fetch(dry_run, date): the date, the request to the catalog, and
\* save_papers on what it returned; sys.exit(1) when it raised.
FetchStage ==
    /\ pc = "fetch"
    /\ LET fetch_date == IF command.date # Null
                         THEN fromisoformat(command.date[1])
                         ELSE minus_one_day(today)
       IN  /\ \E answer \in CatalogAnswers(fetch_date) :
                LET r == fetch_papers(answer)
                IN  /\ catalog' = Some(answer)
                    /\ IF r.raises
                       THEN /\ papers' = papers
                            /\ ret' = NoneValue
                            /\ raised' = "SystemExit"
                            /\ pc' = "exit"
                       ELSE IF command.dry_run
                       THEN /\ papers' = papers
                            /\ ret' = NoneValue
                            /\ raised' = ""
                            /\ pc' = AfterStage(command, "fetch")
                       ELSE /\ papers' = save_papers(papers, r.value).db
                            /\ ret' = IntValue(save_papers(papers, r.value).ret)
                            /\ raised' = ""
                            /\ pc' = AfterStage(command, "fetch")
           /\ call' = [NoCall EXCEPT !.op = "fetch",
                                     !.target_date = Some(fetch_date),
                                     !.flag = command.dry_run]
           /\ stages' = Append(stages, Stage("fetch", Some(fetch_date)))
    /\ UNCHANGED <<queue, feedVars, filterVars, summarizerVars, configVars,
                   today, command, selection, in_flight, called, updated, failed>>

\* cli summarize(limit, batch, force), up to the loop: the selection; with no
\* paper selected it returns.
SummarizeSelect ==
    /\ pc = "summarize"
    /\ \E found \in get_pending_papers(papers, Some(command.limit), command.force),
          batch \in BatchOptions :
        /\ selection' = found
        /\ queue' = [i \in 1..Len(found) |-> in_batches(found, batch)[i].id]
        /\ ret' = IF Len(found) = 0 THEN NoneValue ELSE IntValue(0)
        /\ pc' = IF Len(found) = 0 THEN AfterStage(command, "summarize") ELSE "loop"
    /\ call' = [NoCall EXCEPT !.op = "summarize", !.limit = Some(command.limit),
                              !.flag = command.force]
    /\ stages' = Append(stages, Stage("summarize", Null))
    /\ raised' = ""
    /\ UNCHANGED <<papers, feedVars, filterVars, summarizerVars, configVars,
                   today, command, catalog, in_flight, called, updated, failed>>

\* The loop of summarize reaches a paper: its AI call is started.
CallSummarizer ==
    /\ pc = "loop"
    /\ in_flight' = Range(summarize_next(queue))
    /\ called' = called \o summarize_next(queue)
    /\ pc' = "await"
    /\ UNCHANGED <<storeVars, feedVars, filterVars, summarizerVars, configVars,
                   today, command, stages, catalog, selection, updated, failed>>

\* Where the loop stands once the paper at the head of the queue is done with.
AfterPaper(line, remaining, waiting) ==
    IF waiting # {} THEN "await"
    ELSE IF Len(remaining) > 0 THEN "loop"
    ELSE AfterStage(line, "summarize")

\* The AI call returns a summary: update_paper_summary stores it and the
\* paper is counted.
SummarizerReturns ==
    /\ pc = "await"
    /\ Head(queue) \in in_flight
    /\ \E summary \in SummaryInputs :
        papers' = update_paper_summary(papers, Head(queue), summary).db
    /\ ret' = IntValue(ret.int + 1)
    /\ updated' = Append(updated, Head(queue))
    /\ in_flight' = in_flight \ {Head(queue)}
    /\ queue' = Tail(queue)
    /\ pc' = AfterPaper(command, queue', in_flight')
    /\ UNCHANGED <<call, raised, feedVars, filterVars, summarizerVars, configVars,
                   today, command, stages, catalog, selection, called, failed>>

\* The AI call, or the store update after it, raises: the loop catches the
\* exception, prints it and goes on to the next paper.
SummarizerFails ==
    /\ pc = "await"
    /\ Head(queue) \in in_flight
    /\ failed' = failed \cup {Head(queue)}
    /\ in_flight' = in_flight \ {Head(queue)}
    /\ queue' = Tail(queue)
    /\ pc' = AfterPaper(command, queue', in_flight')
    /\ UNCHANGED <<papers, call, ret, raised, feedVars, filterVars, summarizerVars,
                   configVars, today, command, stages, catalog, selection, called,
                   updated>>

\* cli report(date): the date, the papers published on it, and the digest of
\* these papers; with no paper it returns.
ReportStage ==
    /\ pc = "report"
    /\ LET report_date == IF command.date # Null
                          THEN strptime_date(command.date[1])
                          ELSE today
       IN  /\ \E found \in get_papers_by_date(papers, report_date, Null) :
                ret' = IF Len(found) = 0 THEN NoneValue
                       ELSE DigestValue([i \in 1..Len(found) |-> found[i].id])
           /\ call' = [NoCall EXCEPT !.op = "report",
                                     !.target_date = Some(report_date)]
           /\ stages' = Append(stages, Stage("report", Some(report_date)))
    /\ raised' = ""
    /\ pc' = AfterStage(command, "report")
    /\ UNCHANGED <<papers, queue, feedVars, filterVars, summarizerVars, configVars,
                   today, command, catalog, selection, in_flight, called, updated,
                   failed>>

\* The process ends, after its last stage or in sys.exit(1): nothing of it
\* is left but the table.
Exit ==
    /\ pc \in {"done", "exit"}
    /\ call' = NoCall
    /\ ret' = NoneValue
    /\ raised' = ""
    /\ queue' = <<>>
    /\ command' = NoCommandLine
    /\ pc' = ""
    /\ stages' = <<>>
    /\ catalog' = Null
    /\ selection' = <<>>
    /\ in_flight' = {}
    /\ called' = <<>>
    /\ updated' = <<>>
    /\ failed' = {}
    /\ UNCHANGED <<papers, today, feedVars, filterVars, summarizerVars, configVars>>

NextCli ==
    \/ Tick
    \/ Invoke
    \/ FetchStage
    \/ SummarizeSelect
    \/ CallSummarizer
    \/ SummarizerReturns
    \/ SummarizerFails
    \/ ReportStage
    \/ Exit

SpecCli == InitCli /\ [][NextCli]_vars

----------------------------------------------------------------------------
(* paper_tracker/config.py: Settings and load_config                       *)
(*                                                                         *)
(* A value of a setting is a sequence: None and the empty list are both    *)
(* the empty one (merge treats them alike), a list is the sequence of its  *)
(* items, a text or a number v is <<v>>.  The settings are those that are  *)
(* not paths: the paths are left at their defaults.                        *)

SettingsFields ==
    {"anthropic_api_key", "categories", "keywords", "arxiv_base_url",
     "max_papers_per_batch", "summary_model"}

\* Settings(): the defaults of the dataclass.
DefaultSettings ==
    [anthropic_api_key |-> Null,
     categories |-> <<"cs.AI", "cs.LG", "cs.CL", "cs.SE", "cs.CR">>,
     keywords |-> <<>>,
     arxiv_base_url |-> Some("http://export.arxiv.org/api/query"),
     max_papers_per_batch |-> Some(10),
     summary_model |-> Some("claude-sonnet-4-6")]

\* Settings.from_yaml: the defaults without the file, else
\* cls(**data): the value of the file for a key it sets, the default for
\* the others.
from_yaml(file) ==
    IF file = Null THEN DefaultSettings
    ELSE [key \in SettingsFields |->
            IF key \in file[1].set THEN file[1].values[key]
            ELSE DefaultSettings[key]]

\* os.getenv(name)
getenv(env, name) == env[name]

\* Settings.from_env
from_env(env) ==
    [DefaultSettings EXCEPT !.anthropic_api_key = getenv(env, "ANTHROPIC_API_KEY")]

\* Settings.merge: for each field the value of other unless that is None or
\* the empty list, else the value of self.
merge(self, other) ==
    [key \in SettingsFields |->
        IF other[key] # <<>> THEN other[key] ELSE self[key]]

\* load_config
load_config(file, env) == merge(from_yaml(file), from_env(env))

\* The values a config file gives a setting.
FileValues ==
    [anthropic_api_key : {Null, Some("sk-file")},
     categories : {DefaultSettings.categories, <<"cs.CV">>, <<>>},
     keywords : {<<>>, <<"llm">>},
     arxiv_base_url : {DefaultSettings.arxiv_base_url, Some("http://localhost/api")},
     max_papers_per_batch : {DefaultSettings.max_papers_per_batch, Some(5)},
     summary_model : {DefaultSettings.summary_model, Some("claude-haiku")}]

\* The config files: the keys a file sets, and their values (values holds
\* the default for a key the file does not set).
ConfigFiles ==
    {file \in [set : SUBSET SettingsFields, values : FileValues] :
        \A key \in SettingsFields \ file.set :
            file.values[key] = DefaultSettings[key]}

Environments ==
    {[ANTHROPIC_API_KEY |-> key] : key \in {Null, Some("sk-env"), Some("")}}

InitConfig ==
    /\ config_file \in {Null} \cup {Some(file) : file \in ConfigFiles}
    /\ environ \in Environments
    /\ settings = Null
    /\ papers = <<>>
    /\ call = NoCall
    /\ ret = NoneValue
    /\ raised = ""
    /\ queue = <<>>
    /\ feed = <<>>
    /\ parsed = Null
    /\ NoFilter
    /\ NoResponse
    /\ NoCommand

\* load_config()
LoadConfig ==
    /\ settings = Null
    /\ settings' = Some(load_config(config_file, environ))
    /\ call' = [NoCall EXCEPT !.op = "load_config"]
    /\ UNCHANGED <<papers, ret, raised, queue, feedVars, filterVars, summarizerVars,
                   cliVars, config_file, environ>>

NextConfig == LoadConfig

SpecConfig == InitConfig /\ [][NextConfig]_vars

----------------------------------------------------------------------------
(* Properties                                                              *)

\* The step is the call op, made from between two invocations.
Calls(op) == call = NoCall /\ call'.op = op

SummaryFields(row) == <<row.summary, row.key_points, row.relevance_score>>

\* The row but for its status.
WithoutStatus(row) == [row EXCEPT !.status = ""]

Rank(status) ==
    IF status = "pending" THEN 0 ELSE IF status = "summarized" THEN 1 ELSE 2

\* C1: add_paper(p) returns True and creates p's row when p.id is not stored
\* (the row reads back as p); when p.id is stored it returns False, raises
\* nothing and leaves the table as it was, every field of the existing row
\* included.
C1_AddPaperInsertOrIgnore ==
    [][Calls("add_paper") =>
        LET p == call'.paper[1]
        IN  /\ raised' = ""
            /\ IF p.id \in Stored(papers)
               THEN ret' = BoolValue(FALSE) /\ papers' = papers
               ELSE /\ ret' = BoolValue(TRUE)
                    /\ Stored(papers') = Stored(papers) \cup {p.id}
                    /\ get_paper(papers', p.id) = Some(p)
                    /\ \A i \in Stored(papers) : papers'[i] = papers[i]]_vars

\* A second add_paper of an id whose row differs from the paper offered and
\* has been summarized and reported since the first.
C1_Witness ==
    /\ call.op = "add_paper"
    /\ ret = BoolValue(FALSE)
    /\ LET p == call.paper[1]
       IN  /\ papers[p.id].title # p.title
           /\ papers[p.id].status = "reported"
           /\ papers[p.id].summary # Null

\* C2: every stored row has summary, key_points and relevance_score all null
\* or all non-null.
C2_SummaryFieldsTogether ==
    \A i \in Stored(papers) :
        \/ SummaryFields(papers[i]) = <<Null, Null, Null>>
        \/ /\ papers[i].summary # Null
           /\ papers[i].key_points # Null
           /\ papers[i].relevance_score # Null

\* A summarized row whose key points text is the empty string (not null), and
\* a row that is still un-summarized.
C2_Witness ==
    /\ \E i \in Stored(papers) :
        papers[i].summary # Null /\ papers[i].key_points = Some(<<>>)
    /\ \E i \in Stored(papers) : SummaryFields(papers[i]) = <<Null, Null, Null>>

\* C3: the status of a stored row only moves forward along
\* pending -> summarized -> reported.
C3_StatusOnlyForward ==
    [][\A i \in Stored(papers) :
        Rank(papers'[i].status) >= Rank(papers[i].status)]_vars

\* C4: once report has written a digest, every paper in it has status
\* reported.
C4_DigestPapersReported ==
    call.op = "report" /\ ret.kind = "digest" =>
        \A i \in Range(ret.ids) : papers[i].status = "reported"

\* C5: update_paper_summary of an id that is not stored returns False, raises
\* nothing and leaves the table as it was; of a stored id it returns True and
\* sets summary, key_points, relevance_score and status = summarized on that
\* row, creating no row and leaving the other rows as they were.
C5_UpdatePaperSummary ==
    [][Calls("update_paper_summary") =>
        LET paper_id == call'.paper_id
            summary == call'.summary[1]
        IN  /\ raised' = ""
            /\ Stored(papers') = Stored(papers)
            /\ \A i \in Stored(papers) \ {paper_id} : papers'[i] = papers[i]
            /\ IF paper_id \notin Stored(papers)
               THEN ret' = BoolValue(FALSE)
               ELSE /\ ret' = BoolValue(TRUE)
                    /\ papers'[paper_id].summary = Some(summary.summary_text)
                    /\ papers'[paper_id].key_points # Null
                    /\ papers'[paper_id].relevance_score # Null
                    /\ papers'[paper_id].status = "summarized"]_vars

\* update_paper_summary of an id that is not stored, on a table with rows.
C5_Witness ==
    /\ call.op = "update_paper_summary"
    /\ ret = BoolValue(FALSE)
    /\ call.paper_id \notin Stored(papers)
    /\ Stored(papers) # {}

\* C6: mark_reported(ids) sets status = reported on exactly the stored rows
\* whose id is in the list and changes nothing else of them, returns the
\* number of those rows, creates no row and leaves the other rows as they
\* were.
C6_MarkReported ==
    [][Calls("mark_reported") =>
        LET paper_ids == Range(call'.paper_ids)
        IN  /\ raised' = ""
            /\ Stored(papers') = Stored(papers)
            /\ ret' = IntValue(Cardinality({i \in Stored(papers) : i \in paper_ids}))
            /\ \A i \in Stored(papers) :
                IF i \in paper_ids
                THEN /\ papers'[i].status = "reported"
                     /\ WithoutStatus(papers'[i]) = WithoutStatus(papers[i])
                ELSE papers'[i] = papers[i]]_vars

\* mark_reported of a list that names one stored row twice, or one stored and
\* one unknown id, on a table with a row the list does not name.
C6_Witness ==
    /\ call.op = "mark_reported"
    /\ Len(call.paper_ids) = 2
    /\ ret = IntValue(1)
    /\ \E i \in Stored(papers) :
        i \notin Range(call.paper_ids) /\ papers[i].status # "reported"

\* The latest of the publication dates stored.
MaxPublishedDate ==
    CHOOSE d \in {fromisoformat(papers[i].published_date) : i \in Stored(papers)} :
        \A j \in Stored(papers) : ~DateLess(d, fromisoformat(papers[j].published_date))

\* C7: get_latest_paper_date returns the maximum published_date of the stored
\* rows, and None for the empty table, without raising.
C7_LatestPublishedDate ==
    call.op = "get_latest_paper_date" =>
        /\ raised = ""
        /\ ret = IF Stored(papers) = {} THEN NoneValue
                 ELSE DateValue(MaxPublishedDate)

\* The ids of the papers a query returned.
ReturnedIds == {ret.list[k].id : k \in 1..Len(ret.list)}

\* The query returned rows of the table as they are, none twice.
ReturnsStoredRows ==
    /\ \A k \in 1..Len(ret.list) :
        ret.list[k].id \in Stored(papers) /\ ret.list[k] = _row_to_paper(papers[ret.list[k].id])
    /\ Cardinality(ReturnedIds) = Len(ret.list)

PublishedOn(i) == fromisoformat(papers[i].published_date)

\* C8: get_pending_papers(limit), for limit absent or an integer >= 0,
\* returns only pending rows, latest published_date first; all of them
\* without a limit, and with a limit n the first n of that order (at most n).
C8_PendingPapers ==
    call.op = "get_pending_papers" /\ ~call.flag =>
        LET limit == call.limit
            pending == {i \in Stored(papers) : papers[i].status = "pending"}
        IN  /\ ReturnsStoredRows
            /\ ReturnedIds \subseteq pending
            /\ \A k, l \in 1..Len(ret.list) :
                k < l => ~DateLess(ret.list[k].published_date, ret.list[l].published_date)
            /\ IF limit = Null
               THEN ReturnedIds = pending
               ELSE /\ Len(ret.list) = Min(limit[1], Cardinality(pending))
                    /\ \A i \in pending \ ReturnedIds : \A k \in 1..Len(ret.list) :
                        ~DateLess(ret.list[k].published_date, PublishedOn(i))

\* C9: get_papers_by_date(d, s) returns exactly the rows published on d (and
\* with status s when s is given), highest relevance_score first, the rows
\* without a score after all rows with one.
C9_PapersByDate ==
    call.op = "get_papers_by_date" =>
        LET target_date == call.target_date[1]
            status == call.status
        IN  /\ ReturnsStoredRows
            /\ ReturnedIds =
                {i \in Stored(papers) :
                    /\ PublishedOn(i) = target_date
                    /\ status # Null => papers[i].status = status[1]}
            /\ \A k, l \in 1..Len(ret.list) :
                k < l =>
                    /\ ret.list[k].relevance_score = Null => ret.list[l].relevance_score = Null
                    /\ ret.list[k].relevance_score # Null /\ ret.list[l].relevance_score # Null
                        => ret.list[k].relevance_score[1] >= ret.list[l].relevance_score[1]

\* A query by date and status that returns a scored row and then a row
\* without a score.
C9_Witness ==
    /\ call.op = "get_papers_by_date"
    /\ call.status = Some("reported")
    /\ Len(ret.list) = 2
    /\ ret.list[1].relevance_score # Null
    /\ ret.list[2].relevance_score = Null

\* The entry has an id, a title, a summary, a PDF link and a published
\* timestamp that parses.
EntryComplete(entry) ==
    /\ entry.id # Null
    /\ entry.title # Null
    /\ entry.summary # Null
    /\ \E i \in 1..Len(entry.links) : entry.links[i].type = PdfType
    /\ entry.published # Null
    /\ entry.published[1].iso

\* The positions of the complete entries of the feed, in feed order.
CompleteEntries ==
    SelectSeq([i \in 1..Len(feed) |-> i], LAMBDA i : EntryComplete(feed[i]))

\* C10: _parse_response never aborts because of an entry, excludes each
\* entry that lacks its id, title, summary or PDF link element (or a
\* published timestamp that parses), and returns one paper for each other
\* entry, in feed order, so that the number of papers is the number of
\* complete entries.
C10_IncompleteEntriesSkipped ==
    call.op = "_parse_response" =>
        /\ raised = ""
        /\ parsed # Null
        /\ Len(parsed[1]) = Len(CompleteEntries)
        /\ \A k \in 1..Len(CompleteEntries) :
            LET entry == feed[CompleteEntries[k]]
            IN  /\ parsed[1][k].id = split_last(entry.id[1], "/")
                /\ parsed[1][k].published_date = entry.published[1].date
                /\ parsed[1][k].authors = author_names(entry.authors)

\* A feed whose first entry has no PDF link and whose second is complete,
\* parsed to the one paper of the second.
C10_Witness ==
    /\ call.op = "_parse_response"
    /\ Len(feed) = 2
    /\ feed[1].id # Null /\ feed[1].title # Null /\ feed[1].summary # Null
    /\ \A i \in 1..Len(feed[1].links) : feed[1].links[i].type # PdfType
    /\ EntryComplete(feed[2])
    /\ parsed # Null
    /\ Len(parsed[1]) = 1
    /\ parsed[1][1].id = split_last(feed[2].id[1], "/")

\* C11: every Paper the feed parser returns has a non-empty id, title,
\* abstract and pdf_url (and a published date): an entry whose PDF link has
\* no href, whose id ends in "/", or whose title or summary is only
\* whitespace is discarded.
C11_ParsedPapersWellFormed ==
    call.op = "_parse_response" /\ parsed # Null =>
        \A k \in 1..Len(parsed[1]) :
            /\ parsed[1][k].id # <<>>
            /\ parsed[1][k].title # <<>>
            /\ parsed[1][k].abstract # <<>>
            /\ parsed[1][k].pdf_url # ""

\* The length of the run of whitespace that text starts with.
RECURSIVE WhitespaceRun(_)
WhitespaceRun(text) ==
    IF Len(text) > 0 /\ text[1] \in Whitespace
    THEN 1 + WhitespaceRun(Tail(text)) ELSE 0

\* The text with each run of whitespace that holds a line break replaced by
\* one space.
RECURSIVE CollapseLineBreaks(_)
CollapseLineBreaks(text) ==
    IF Len(text) = 0 THEN <<>>
    ELSE IF text[1] \in Whitespace
    THEN LET n == WhitespaceRun(text)
             run == SubSeq(text, 1, n)
         IN  (IF "\n" \in Range(run) THEN <<" ">> ELSE run)
             \o CollapseLineBreaks(SubSeq(text, n + 1, Len(text)))
    ELSE <<text[1]>> \o CollapseLineBreaks(Tail(text))

\* C12: the parsed title is the entry's title text trimmed, with each line
\* break and the indentation around it collapsed to a single space.
C12_TitleLineBreaksCollapsed ==
    call.op = "_parse_response" /\ parsed # Null
        /\ Len(parsed[1]) = Len(CompleteEntries) =>
        \A k \in 1..Len(CompleteEntries) :
            parsed[1][k].title =
                CollapseLineBreaks(strip(feed[CompleteEntries[k]].title[1]))

\* The keyword as the filter compares it: lowercased unless the filter is
\* case-sensitive.
Compared(text) == IF case_sensitive THEN text ELSE lower(text)

\* The keyword occurs in the text, character by character from some place.
Occurs(keyword, text) ==
    \E i \in 1..(Len(text) + 1) :
        \A j \in 1..Len(keyword) :
            i + j - 1 <= Len(text) /\ text[i + j - 1] = keyword[j]

\* The configured keyword at position i matches the paper.
KeywordMatches(i, paper) ==
    Occurs(Compared(keywords[i]),
           Compared(paper.title \o <<" ">> \o paper.abstract))

\* The positions of the configured keywords that match the paper, in order.
MatchingPositions(paper) ==
    SelectSeq([i \in 1..Len(keywords) |-> i], LAMBDA i : KeywordMatches(i, paper))

\* C13: the matched keywords of a paper are, in configured order and one for
\* each, the configured keywords that occur in title + " " + abstract (both
\* sides lowercased unless the filter is case-sensitive); which casing the
\* returned keyword has is left to C14.
C13_MatchedKeywords ==
    call.op = "filter" /\ results # Null =>
        \A k \in 1..Len(results[1].list) :
            LET r == results[1].list[k]
                at == MatchingPositions(r.paper)
            IN  /\ Len(r.matched_keywords) = Len(at)
                /\ \A j \in 1..Len(at) :
                    Compared(r.matched_keywords[j]) = Compared(keywords[at[j]])

\* A case-insensitive filter with two keywords of which the first does not
\* match and the second matches in the abstract only, in another casing.
C13_Witness ==
    /\ call.op = "filter" /\ results # Null
    /\ ~case_sensitive
    /\ Len(keywords) = 2
    /\ \E k \in 1..Len(results[1].list) :
        LET r == results[1].list[k]
        IN  /\ MatchingPositions(r.paper) = <<2>>
            /\ Len(r.matched_keywords) = 1
            /\ keywords[2] # lower(keywords[2])
            /\ ~Occurs(lower(keywords[2]), lower(r.paper.title))

\* C14: the matched keywords carry the casing of the keyword as it
\* was passed to the constructor.
C14_OriginalCasing ==
    call.op = "filter" /\ results # Null =>
        \A k \in 1..Len(results[1].list) :
            LET r == results[1].list[k]
                at == MatchingPositions(r.paper)
            IN  \A j \in 1..Min(Len(at), Len(r.matched_keywords)) :
                    r.matched_keywords[j] = keywords[at[j]]

\* C15: with a non-empty keyword list, the score of every result lies in
\* [0, 1], and it is 0 exactly when no keyword matches the paper.
C15_ScoreRangeAndZero ==
    call.op = "filter" /\ results # Null /\ keywords # <<>> =>
        \A k \in 1..Len(results[1].list) :
            LET r == results[1].list[k]
            IN  /\ r.relevance_score >= 0
                /\ r.relevance_score <= 1000
                /\ r.relevance_score = 0 <=> MatchingPositions(r.paper) = <<>>

\* The place of a returned paper in the list handed to filter.
PlaceOf(paper) == CHOOSE i \in 1..Len(candidates) : candidates[i] = paper

\* C16: filter returns one result for exactly the papers that match at least
\* min_matches keywords, highest relevance_score first, the papers of equal
\* score in the order they were handed in.
C16_FilterRetainsAndSorts ==
    call.op = "filter" /\ results # Null =>
        LET list == results[1].list
            retained ==
                {i \in 1..Len(candidates) :
                    Len(MatchingPositions(candidates[i])) >= results[1].min_matches}
        IN  /\ Len(list) = Cardinality(retained)
            /\ {list[k].paper : k \in 1..Len(list)} = {candidates[i] : i \in retained}
            /\ \A k, l \in 1..Len(list) :
                k < l =>
                    /\ list[k].relevance_score >= list[l].relevance_score
                    /\ list[k].relevance_score = list[l].relevance_score
                        => PlaceOf(list[k].paper) < PlaceOf(list[l].paper)

\* Three papers of which the first two score the same and the third more:
\* the third is returned first, the two others in their order.
C16_Witness ==
    /\ call.op = "filter" /\ results # Null
    /\ Len(candidates) = 3
    /\ LET list == results[1].list
       IN  /\ Len(list) = 3
           /\ list[1].paper = candidates[3]
           /\ list[2].paper = candidates[1]
           /\ list[3].paper = candidates[2]
           /\ list[1].relevance_score > list[2].relevance_score
           /\ list[2].relevance_score = list[3].relevance_score
           /\ list[3].relevance_score > 0

\* The results for one paper before and after the keyword was added.
SamePaper(before, after) == before.paper = after.paper

\* C17: adding a keyword that does not match a paper leaves the paper's
\* matched keywords as they were and never increases its score.
C17_ExtraKeywordNeverRaisesScore ==
    earlier # Null =>
        \A k \in 1..Len(earlier[1].list), l \in 1..Len(results[1].list) :
            LET before == earlier[1].list[k]
                after == results[1].list[l]
            IN  SamePaper(before, after)
                    /\ ~KeywordMatches(Len(keywords), after.paper) =>
                        /\ after.matched_keywords = before.matched_keywords
                        /\ after.relevance_score <= before.relevance_score

\* A paper whose score dropped when a keyword that does not match it was
\* added.
C17_Witness ==
    /\ earlier # Null
    /\ \E k \in 1..Len(earlier[1].list), l \in 1..Len(results[1].list) :
        LET before == earlier[1].list[k]
            after == results[1].list[l]
        IN  /\ SamePaper(before, after)
            /\ ~KeywordMatches(Len(keywords), after.paper)
            /\ before.matched_keywords # <<>>
            /\ after.relevance_score < before.relevance_score

\* The parser of the response was called.
ResponseParsed == call.op = "Summarizer._parse_response"

\* C18: for every paper id and response, _parse_response raises nothing and
\* returns a PaperSummary with the paper id it was given.
C18_ParseResponseNeverRaises ==
    ResponseParsed =>
        /\ raised = ""
        /\ paper_summary # Null
        /\ paper_summary[1].paper_id = response.paper_id

\* A response that is JSON but no object has been parsed to a summary.
C18_Witness ==
    /\ ResponseParsed
    /\ paper_summary # Null
    /\ response.text = <<"[]">>

\* The text is an object literal whose members all have the expected type.
WellFormedObject(text) ==
    /\ Len(text) >= 2
    /\ text[1] = "{"
    /\ text[Len(text)] = "}"
    /\ \A i \in 2..(Len(text) - 1) :
        \/ text[i] \in Whitespace
        \/ text[i] \in FieldTokens /\ FieldToken[text[i]].typed

\* The well-formed objects that are part of the response.
ObjectsWithin(text) ==
    {SubSeq(text, i, j) :
        <<i, j>> \in {p \in {a \in 1..Len(text) : text[a] = "{"}
                            \X {b \in 1..Len(text) : text[b] = "}"} :
                        p[1] < p[2] /\ WellFormedObject(SubSeq(text, p[1], p[2]))}}

\* C19: a response no part of which is a well-formed object is answered
\* with the fallback: no key points, no contributions, score 0.0 and the
\* first 500 characters of the response as the text, nothing appended.
C19_FallbackSummary ==
    ResponseParsed /\ paper_summary # Null /\ ObjectsWithin(response.text) = {} =>
        paper_summary[1] =
            [paper_id |-> response.paper_id,
             key_points |-> <<>>,
             main_contributions |-> <<>>,
             relevance_score |-> 0,
             summary_text |->
                [k \in 1..Min(Len(response.text), FallbackLength) |-> response.text[k]]]

\* A response of more than 500 characters without an object, answered with
\* its first 500 characters.
C19_Witness ==
    /\ ResponseParsed /\ paper_summary # Null
    /\ ObjectsWithin(response.text) = {}
    /\ Len(response.text) > FallbackLength
    /\ Len(paper_summary[1].summary_text) = FallbackLength

\* The summary has the value of every member of the object (of the last
\* member, for a key the object has twice).
HasFieldsOf(object_text) ==
    \A i \in 1..Len(object_text) :
        object_text[i] \in FieldTokens
            /\ (\A j \in (i + 1)..Len(object_text) :
                    object_text[j] \in FieldTokens
                        => FieldToken[object_text[j]].key # FieldToken[object_text[i]].key)
        => paper_summary[1][FieldToken[object_text[i]].key] = FieldToken[object_text[i]].value

\* The contents of the first fenced block tagged json (one at most).
FencedContents(text) ==
    {SubSeq(text, i + 1, j - 1) :
        <<i, j>> \in {p \in (1..Len(text)) \X (1..Len(text)) :
            /\ p[1] < p[2]
            /\ text[p[1]] = FenceOpen
            /\ text[p[2]] = FenceClose
            /\ \A k \in 1..(p[1] - 1) : text[k] # FenceOpen
            /\ \A k \in (p[1] + 1)..(p[2] - 1) : text[k] # FenceClose}}

\* Between i and j the braces balance, and not before j.
Balanced(text, i, j) ==
    /\ brace_depth(text, i, j) = 0
    /\ \A k \in i..(j - 1) : brace_depth(text, i, k) > 0

\* The first object literal of the text (one at most).
FirstLiterals(text) ==
    {SubSeq(text, i, j) :
        <<i, j>> \in {p \in (1..Len(text)) \X (1..Len(text)) :
            /\ p[1] < p[2]
            /\ text[p[1]] = "{"
            /\ \A k \in 1..(p[1] - 1) : text[k] # "{"
            /\ Balanced(text, p[1], p[2])}}

\* C20: the strategies are tried in order and the first that succeeds is
\* used: the whole response as an object, then the content of the fenced
\* block tagged json, then the first balanced-brace object literal; the
\* summary then has the fields of that object, whatever prose surrounds it.
C20_StrategiesInOrder ==
    ResponseParsed /\ paper_summary # Null =>
        LET text == response.text
            fenced == {c \in FencedContents(text) : WellFormedObject(strip(c))}
            literals == {c \in FirstLiterals(text) : WellFormedObject(c)}
        IN  IF WellFormedObject(strip(text)) THEN HasFieldsOf(text)
            ELSE IF fenced # {} THEN \A c \in fenced : HasFieldsOf(c)
            ELSE \A c \in literals : HasFieldsOf(c)

\* A response with prose, an object literal and then a fenced block holding
\* another object: the summary has the fields of the fenced object.
C20_Witness ==
    /\ ResponseParsed /\ paper_summary # Null
    /\ Len(response.text) > 0 /\ response.text[1] = "b"
    /\ \E c \in FirstLiterals(response.text) :
        WellFormedObject(c) /\ \E i \in 1..Len(c) : c[i] = "st2"
    /\ \E c \in FencedContents(response.text) :
        WellFormedObject(strip(c)) /\ \E i \in 1..Len(c) : c[i] = "kp"
    /\ paper_summary[1].key_points = <<"P1">>
    /\ paper_summary[1].summary_text # <<"S", "2">>

\* C25: save_papers returns the number of rows it created, which is the
\* growth of the set of stored ids: one row for each id of the batch that was
\* not stored, however often the batch holds it.  Each new row is pending
\* with null summary fields, and every row that existed is as it was.
C25_SavePapersCountsNewRows ==
    [][Calls("save_papers") =>
        LET batch == call'.batch
            created == Stored(papers') \ Stored(papers)
        IN  /\ raised' = ""
            /\ ret' = IntValue(Cardinality(created))
            /\ created = {batch[k].id : k \in DOMAIN batch} \ Stored(papers)
            /\ \A i \in created :
                /\ papers'[i].status = "pending"
                /\ SummaryFields(papers'[i]) = <<Null, Null, Null>>
            /\ \A i \in Stored(papers) : papers'[i] = papers[i]]_vars

\* A batch that holds one new id twice, in two versions, next to a stored
\* row that has been summarized: one row is created, from the first version.
C25_Witness ==
    /\ call.op = "save_papers"
    /\ Len(call.batch) = 2
    /\ call.batch[1].id = call.batch[2].id
    /\ call.batch[1] # call.batch[2]
    /\ ret = IntValue(1)
    /\ papers[call.batch[1].id].title = call.batch[1].title
    /\ \E i \in Stored(papers) : papers[i].status = "summarized"

\* The fields of a row that are written when it is inserted.
Inserted(row) ==
    <<row.id, row.title, row.authors, row.abstract, row.url, row.pdf_url,
      row.published_date, row.fetched_date>>

\* C29: no step removes a row or changes the id, title, authors, abstract,
\* url, pdf_url, published_date or fetched_date of a stored row;
\* update_paper_summary changes the targeted row alone and mark_reported
\* changes the status of the targeted rows alone, and neither adds a row.
C29_InsertedFieldsNeverChange ==
    [][/\ \A i \in Stored(papers) :
            /\ i \in Stored(papers')
            /\ Inserted(papers'[i]) = Inserted(papers[i])
       /\ Calls("update_paper_summary") =>
            /\ Stored(papers') = Stored(papers)
            /\ \A i \in Stored(papers) :
                i # call'.paper_id => papers'[i] = papers[i]
       /\ Calls("mark_reported") =>
            /\ Stored(papers') = Stored(papers)
            /\ \A i \in Stored(papers) :
                /\ WithoutStatus(papers'[i]) = WithoutStatus(papers[i])
                /\ i \notin Range(call'.paper_ids) => papers'[i] = papers[i]]_vars

\* mark_reported of one summarized row, next to a row it does not name that
\* has not been reported.
C29_Witness ==
    /\ call.op = "mark_reported"
    /\ ret = IntValue(1)
    /\ \E i, j \in Stored(papers) :
        /\ i \in Range(call.paper_ids)
        /\ papers[i].status = "reported"
        /\ papers[i].summary # Null
        /\ j \notin Range(call.paper_ids)
        /\ papers[j].status # "reported"

\* The ids of the selection of summarize, in its order.
SelectedIds == [k \in 1..Len(selection) |-> selection[k].id]

\* The number of selected papers the loop of summarize is done with.
Handled == Len(selection) - Len(queue)

\* A summary text that identifies its paper as failed (the text
\* Summarizer.summarize_papers gives the summary of a paper that raised).
IdentifiesFailure(text) == text = "Error generating summary"

\* C21: in the batch of summarize, a paper whose AI call or store update
\* raised does not stop the papers after it, and a fallback summary whose
\* text identifies the paper as failed is recorded for it, so that once the
\* loop has ended every selected paper has a summary.
C21_FailedPaperGetsFallbackSummary ==
    /\ \A i \in failed :
        /\ papers[i].summary # Null
        /\ IdentifiesFailure(papers[i].summary[1])
    /\ (call.op = "summarize" /\ pc \in {"report", "done"}) =>
        /\ called = SelectedIds
        /\ \A k \in 1..Len(selection) : papers[selection[k].id].summary # Null

\* C22: when the request to the catalog fails, fetch exits with the error:
\* the step changes no row, and the process ends from there with nothing
\* stored and, inside run, without a summarize or report stage.
C22_CatalogFailureAbortsFetch ==
    [][/\ (pc = "fetch" /\ catalog' # Null /\ ~catalog'[1].ok) =>
            /\ papers' = papers
            /\ raised' = "SystemExit"
            /\ pc' = "exit"
       /\ pc = "exit" =>
            /\ papers' = papers
            /\ pc' = ""
            /\ Len(stages) = 1
            /\ stages[1].name = "fetch"]_vars

\* run, with no option, has exited in its fetch stage on a failed request,
\* over a store that holds a pending paper.
C22_Witness ==
    /\ pc = "exit"
    /\ command = [NoCommandLine EXCEPT !.name = "run", !.limit = command.limit]
    /\ catalog # Null
    /\ ~catalog[1].ok
    /\ \E i \in Stored(papers) : papers[i].status = "pending"

\* C23: summarize has at most one AI call under way, the one for the first
\* selected paper it is not done with; every paper selected before that one
\* has failed or has its summary stored; the calls were started and the
\* summaries stored in the order of the selection, which is by
\* published_date descending.
C23_SummarizedOneAtATime ==
    /\ Cardinality(in_flight) <= 1
    /\ in_flight # {} =>
        /\ in_flight = {SelectedIds[Handled + 1]}
        /\ called = SubSeq(SelectedIds, 1, Handled + 1)
    /\ (in_flight = {} /\ call.op = "summarize") =>
        called = SubSeq(SelectedIds, 1, Handled)
    /\ call.op = "summarize" =>
        /\ updated = SelectSeq(SubSeq(SelectedIds, 1, Handled),
                               LAMBDA i : i \notin failed)
        /\ \A k \in 1..Handled :
            \/ SelectedIds[k] \in failed
            \/ papers[SelectedIds[k]].status = "summarized"
        /\ \A j, k \in 1..Len(selection) :
            j < k => ~DateLess(selection[j].published_date,
                               selection[k].published_date)

\* The AI call of the second selected paper is under way, after the summary
\* of the first, which was published later, has been stored.
C23_Witness ==
    /\ Len(selection) = 2
    /\ DateLess(selection[2].published_date, selection[1].published_date)
    /\ in_flight = {selection[2].id}
    /\ updated = <<selection[1].id>>
    /\ papers[selection[1].id].status = "summarized"

\* C26: a row is inserted with the date of the day of its insertion as
\* fetched_date, whatever its published_date is.
C26_FetchedDateIsIngestionDate ==
    [][\A i \in Stored(papers') \ Stored(papers) :
        papers'[i].fetched_date = isoformat(today)]_vars

\* C28: without --force, summarize selects pending rows only, none of which
\* has had a summary stored before, and starts AI calls for selected papers
\* only and for at most limit of them.
C28_SummarizeOnlyPendingUpToLimit ==
    (call.op = "summarize" /\ ~command.force) =>
        /\ \A k \in 1..Len(selection) :
            /\ selection[k].status = "pending"
            /\ selection[k].summary = Null
        /\ Range(called) \subseteq Range(SelectedIds)
        /\ Len(called) <= command.limit

\* C30: run with no option executes fetch, then summarize, then report, and
\* the report stage selects the papers of the date the fetch stage queried.
C30_RunReportsTheFetchedDate ==
    (/\ command.name = "run"
     /\ ~command.report_only
     /\ ~command.summarize_only
     /\ ~command.no_report) =>
        /\ [k \in 1..Len(stages) |-> stages[k].name]
            = SubSeq(<<"fetch", "summarize", "report">>, 1, Len(stages))
        /\ Len(stages) = 3 => stages[3].date = stages[1].date

\* The environment sets the setting.
EnvironmentSets(key) ==
    key = "anthropic_api_key" /\ getenv(environ, "ANTHROPIC_API_KEY") # Null

\* C27: the Settings load_config returns hold, for every setting the config
\* file sets and the environment does not, the value of the file.
C27_FileSettingsSurviveMerge ==
    (settings # Null /\ config_file # Null) =>
        \A key \in config_file[1].set :
            ~EnvironmentSets(key) => settings[1][key] = config_file[1].values[key]


====
